---- MODULE Spec2Model ----
(***************************************************************************)
(* Model of package rules of snirect-shared: the Rules type (three         *)
(* pattern -> value maps with cached, length-sorted key lists), its        *)
(* lookups, Init/Merge/DeepCopy and the TOML / JSON loaders.               *)
(*                                                                         *)
(* Go strings that are inspected character by character (pattern keys and  *)
(* hostnames) are sequences of one-character strings; strings that are     *)
(* only stored and compared (targets, IPs, policy strings) are TLA+        *)
(* strings.  A Go map is a record [nil, m]: nil tells a nil map from an    *)
(* allocated one, m is the key -> value function.  A []interface{} value   *)
(* is a reference into `heap`, so that two maps can share one backing      *)
(* array.                                                                  *)
(***************************************************************************)
EXTENDS Integers, Sequences, FiniteSets, TLC

VARIABLES
    rules,      \* object name -> the fields of that *Rules
    heap,       \* slice reference -> its elements (backing arrays of []interface{})
    aborted,    \* TRUE once a panic has unwound out of an operation
    last,       \* the operation that produced this state (history)
    copied,     \* whether c is a DeepCopy of a, and the lookups c answered right after the copy (history)
    dirty,      \* object name -> a map of it was written since its index was last rebuilt (history)
    built,      \* a came out of NewRules, or of a FromTOML or FromJSON that succeeded (history)
    scope,      \* the table and the pattern keys this run's inputs are drawn from
    mu,         \* object name -> the state of its sync.RWMutex
    pc,         \* goroutine -> where it is in its call of Merge
    call        \* goroutine -> the receiver and the argument of its call of Merge

locks == <<mu, pc, call>>

vars == <<rules, heap, aborted, last, copied, dirty, built, scope, mu, pc, call>>

-----------------------------------------------------------------------------
(* Bounds of the model *)

MaxKeys == 2        \* distinct pattern keys among the inputs of one run
MaxSlices == 2      \* backing arrays that can be allocated
MaxOps == 2         \* operations in one run, after the receiver is constructed

-----------------------------------------------------------------------------
(* Strings *)

a_b     == <<"a", ".", "b">>
c_a_b   == <<"c", ".", "a", ".", "b">>
c_b     == <<"c", ".", "b">>
st_a_b  == <<"*", ".", "a", ".", "b">>
st_b    == <<"*", ".", "b">>
a_st    == <<"a", ".", "*">>
dl_a_b  == <<"$", "a", ".", "b">>

HasPrefix(s, p) == Len(s) >= Len(p) /\ SubSeq(s, 1, Len(p)) = p
HasSuffix(s, p) == Len(s) >= Len(p) /\ SubSeq(s, Len(s) - Len(p) + 1, Len(s)) = p

TrimPrefix(s, p) == IF HasPrefix(s, p) THEN SubSeq(s, Len(p) + 1, Len(s)) ELSE s

\* index of the first occurrence of character ch in s, 0 when absent
RECURSIVE IndexFrom(_, _, _)
IndexFrom(s, ch, i) ==
    IF i > Len(s) THEN 0
    ELSE IF s[i] = ch THEN i
    ELSE IndexFrom(s, ch, i + 1)

Index(s, ch) == IndexFrom(s, ch, 1)

-----------------------------------------------------------------------------
(* package pattern: MatchPattern *)

\* one half of a pattern (inclusion or exclusion) against a hostname
MatchHalf(p, host) ==
    IF HasPrefix(p, <<"*", ".">>)
    THEN LET domain == SubSeq(p, 3, Len(p))
         IN  host = domain \/ HasSuffix(host, <<".">> \o domain)
    ELSE IF HasPrefix(p, <<"*">>)
    THEN HasSuffix(host, SubSeq(p, 2, Len(p)))
    ELSE IF HasSuffix(p, <<"*">>)
    THEN HasPrefix(host, SubSeq(p, 1, Len(p) - 1))
    ELSE p = host

MatchPattern(pat, host) ==
    IF HasPrefix(pat, <<"#">>) THEN FALSE
    ELSE LET i == Index(pat, "^")
         IN  IF i = 0 THEN MatchHalf(pat, host)
             ELSE /\ MatchHalf(SubSeq(pat, 1, i - 1), host)
                  /\ ~MatchHalf(SubSeq(pat, i + 1, Len(pat)), host)

-----------------------------------------------------------------------------
(* Go maps *)

NilMap  == [nil |-> TRUE,  m |-> <<>>]      \* var m map[string]T
MakeMap == [nil |-> FALSE, m |-> <<>>]      \* make(map[string]T)

MapOf(f) == [nil |-> FALSE, m |-> f]

Keys(mp) == DOMAIN mp.m

\* v, ok := m[k]; reading a nil map is allowed and finds nothing
MapHas(mp, k) == k \in Keys(mp)
MapGet(mp, k, zero) == IF MapHas(mp, k) THEN mp.m[k] ELSE zero

\* m[k] = v on an allocated map
MapSet(mp, k, v) ==
    [nil |-> FALSE, m |-> [x \in Keys(mp) \cup {k} |-> IF x = k THEN v ELSE mp.m[x]]]

\* delete(m, k); a no-op on a nil map
MapDelete(mp, k) ==
    [nil |-> mp.nil, m |-> [x \in Keys(mp) \ {k} |-> mp.m[x]]]

\* the orders in which `for k := range m` can visit the keys of a set
RECURSIVE Orders(_)
Orders(S) ==
    IF S = {} THEN {<<>>}
    ELSE UNION {{<<k>> \o t : t \in Orders(S \ {k})} : k \in S}

-----------------------------------------------------------------------------
(* Values *)

\* an interface{} value of the cert_verify table, or an element of a []interface{}
BoolV(b)   == [t |-> "bool",   b |-> b,     s |-> "", ref |-> 0]
StrV(s)    == [t |-> "string", b |-> FALSE, s |-> s,  ref |-> 0]
NumV       == [t |-> "number", b |-> FALSE, s |-> "", ref |-> 0]   \* any other type (42)
SliceV(p)  == [t |-> "slice",  b |-> FALSE, s |-> "", ref |-> p]   \* []interface{} at heap[p]
\* an array as it is written in a document, before the decoder allocates it
ArrayLit(elems) == [t |-> "array", elems |-> elems]

ZeroPolicy == [Verify |-> FALSE, Allow |-> <<>>]     \* CertPolicy{}

-----------------------------------------------------------------------------
(* normalizeMap and getSortedKeys *)

RECURSIVE normalizeLoop(_, _, _, _)
normalizeLoop(mp, ord, i, newM) ==
    IF i > Len(ord) THEN newM
    ELSE normalizeLoop(mp, ord, i + 1,
                       MapSet(newM, TrimPrefix(ord[i], <<"$">>), mp.m[ord[i]]))

\* ord is the order in which range visits the keys of mp
normalizeMap(mp, ord) ==
    IF mp.nil THEN NilMap
    ELSE normalizeLoop(mp, ord, 1, MakeMap)

Swap(keys, i, j) == [keys EXCEPT ![i] = keys[j], ![j] = keys[i]]

RECURSIVE sortInner(_, _, _)
sortInner(keys, i, j) ==
    IF j > Len(keys) THEN keys
    ELSE sortInner(IF Len(keys[j]) > Len(keys[i]) THEN Swap(keys, i, j) ELSE keys,
                   i, j + 1)

RECURSIVE sortOuter(_, _)
sortOuter(keys, i) ==
    IF i > Len(keys) THEN keys
    ELSE sortOuter(sortInner(keys, i, i + 1), i + 1)

\* getSortedKeys without its sort: the keys as range visited them
getSortedKeysUnsorted(ord) == ord

\* ord is the order in which range visits the keys of the map
getSortedKeys(ord) == sortOuter(ord, 1)

\* what one table can become under normalizeMap followed by getSortedKeys,
\* over every iteration order of the two range loops: <<map, key list>>
TableOutcomes(mp) ==
    UNION {{<<nm, getSortedKeys(o2)>> : o2 \in Orders(Keys(nm))} :
             nm \in {normalizeMap(mp, o1) : o1 \in Orders(Keys(mp))}}

\* the body of Init, which Merge, FromTOML and FromJSONRules repeat inline
InitLogic(r) ==
    {[AlterHostname     |-> ta[1], CertVerify     |-> tc[1], Hosts     |-> th[1],
      alterHostnameKeys |-> ta[2], certVerifyKeys |-> tc[2], hostsKeys |-> th[2]] :
        ta \in TableOutcomes(r.AlterHostname),
        tc \in TableOutcomes(r.CertVerify),
        th \in TableOutcomes(r.Hosts)}

-----------------------------------------------------------------------------
(* Construction and copy *)

\* var r Rules
ZeroRules ==
    [AlterHostname     |-> NilMap, CertVerify     |-> NilMap, Hosts     |-> NilMap,
     alterHostnameKeys |-> <<>>,   certVerifyKeys |-> <<>>,   hostsKeys |-> <<>>]

NewRules ==
    [AlterHostname     |-> MakeMap, CertVerify     |-> MakeMap, Hosts     |-> MakeMap,
     alterHostnameKeys |-> <<>>,    certVerifyKeys |-> <<>>,    hostsKeys |-> <<>>]

\* a new map with the same entries; a slice value is copied as a reference
copyMap(mp) ==
    IF mp.nil THEN NilMap
    ELSE [nil |-> FALSE, m |-> [k \in Keys(mp) |-> mp.m[k]]]

DeepCopyOf(r) ==
    [AlterHostname     |-> copyMap(r.AlterHostname),
     CertVerify        |-> copyMap(r.CertVerify),
     Hosts             |-> copyMap(r.Hosts),
     alterHostnameKeys |-> r.alterHostnameKeys,
     certVerifyKeys    |-> r.certVerifyKeys,
     hostsKeys         |-> r.hostsKeys]

-----------------------------------------------------------------------------
(* ParseCertPolicy and the three lookups *)

\* Allow[i] = s when item i is a string, the zero string otherwise
AllowOf(elems) ==
    [i \in 1..Len(elems) |-> IF elems[i].t = "string" THEN elems[i].s ELSE ""]

\* h is the heap the slice references of val point into
ParseCertPolicy(val, h) ==
    CASE val.t = "bool" ->
            [policy |-> [Verify |-> val.b, Allow |-> <<>>], ok |-> TRUE]
      [] val.t = "string" /\ val.s = "strict" ->
            [policy |-> [Verify |-> TRUE, Allow |-> <<>>], ok |-> TRUE]
      [] val.t = "string" /\ val.s # "strict" /\ val.s # "" ->
            [policy |-> [Verify |-> FALSE, Allow |-> <<val.s>>], ok |-> TRUE]
      [] val.t = "slice" ->
            [policy |-> [Verify |-> FALSE, Allow |-> AllowOf(h[val.ref])], ok |-> TRUE]
      [] OTHER ->
            [policy |-> ZeroPolicy, ok |-> FALSE]

\* the first key of the list that matches host, 0 when none does
RECURSIVE FirstMatch(_, _, _)
FirstMatch(keys, host, i) ==
    IF i > Len(keys) THEN 0
    ELSE IF MatchPattern(keys[i], host) THEN i
    ELSE FirstMatch(keys, host, i + 1)

\* GetAlterHostname without its exact-match check
GetAlterHostnameScanOnly(r, host) ==
    LET i == FirstMatch(r.alterHostnameKeys, host, 1)
    IN  IF i # 0
        THEN [val |-> MapGet(r.AlterHostname, r.alterHostnameKeys[i], ""), ok |-> TRUE]
        ELSE [val |-> "", ok |-> FALSE]

GetAlterHostname(r, host) ==
    IF MapHas(r.AlterHostname, host)
    THEN [val |-> r.AlterHostname.m[host], ok |-> TRUE]
    ELSE LET i == FirstMatch(r.alterHostnameKeys, host, 1)
         IN  IF i # 0
             THEN [val |-> MapGet(r.AlterHostname, r.alterHostnameKeys[i], ""), ok |-> TRUE]
             ELSE [val |-> "", ok |-> FALSE]

GetHost(r, host) ==
    IF MapHas(r.Hosts, host)
    THEN [val |-> r.Hosts.m[host], ok |-> TRUE]
    ELSE LET i == FirstMatch(r.hostsKeys, host, 1)
         IN  IF i # 0
             THEN [val |-> MapGet(r.Hosts, r.hostsKeys[i], ""), ok |-> TRUE]
             ELSE [val |-> "", ok |-> FALSE]

\* the nil interface{} that a missing key reads as
NilV == [t |-> "nil", b |-> FALSE, s |-> "", ref |-> 0]

\* GetCertVerify reporting a failed parse as not found
GetCertVerifyParsedOnly(r, host, h) ==
    IF MapHas(r.CertVerify, host)
    THEN [val |-> ParseCertPolicy(r.CertVerify.m[host], h).policy,
          ok  |-> ParseCertPolicy(r.CertVerify.m[host], h).ok]
    ELSE LET i == FirstMatch(r.certVerifyKeys, host, 1)
             p == ParseCertPolicy(MapGet(r.CertVerify, r.certVerifyKeys[i], NilV), h)
         IN  IF i # 0
             THEN [val |-> p.policy, ok |-> p.ok]
             ELSE [val |-> ZeroPolicy, ok |-> FALSE]

GetCertVerify(r, host, h) ==
    IF MapHas(r.CertVerify, host)
    THEN [val |-> ParseCertPolicy(r.CertVerify.m[host], h).policy, ok |-> TRUE]
    ELSE LET i == FirstMatch(r.certVerifyKeys, host, 1)
         IN  IF i # 0
             THEN [val |-> ParseCertPolicy(MapGet(r.CertVerify, r.certVerifyKeys[i], NilV),
                                           h).policy,
                   ok  |-> TRUE]
             ELSE [val |-> ZeroPolicy, ok |-> FALSE]

-----------------------------------------------------------------------------
(* Inputs *)

Tables == {"AlterHostname", "CertVerify", "Hosts"}

KeysOf(t) ==
    CASE t = "AlterHostname" -> {a_b, st_a_b, st_b, a_st, dl_a_b}
      [] t = "CertVerify"    -> {a_b, st_a_b, st_b}
      [] t = "Hosts"         -> {a_b, st_a_b, st_b}

\* values as a document or a caller writes them (arrays not yet allocated)
ValuesOf(t) ==
    CASE t = "AlterHostname" -> {"A", "__AUTO__"}
      [] t = "CertVerify"    -> {BoolV(TRUE), StrV("pin"), StrV(""), NumV,
                                 ArrayLit(<<StrV("s1"), NumV>>)}
      [] t = "Hosts"         -> {"1.1.1.1", "2.2.2.2"}

\* what a caller can store into an element of a []interface{}
Elements == {StrV("s2")}

Hostnames ==
    {a_b, c_a_b, c_b, <<"b">>, <<"x">>} \cup UNION {KeysOf(t) : t \in Tables}

\* a run populates one table, with keys from a set of MaxKeys patterns
Scopes ==
    UNION {{[table |-> t, keys |-> K] :
              K \in {S \in SUBSET KeysOf(t) : Cardinality(S) = MaxKeys}} : t \in Tables}

\* the maps a section of the scope's table can hold
Sections ==
    {MapOf(f) : f \in UNION {[S -> ValuesOf(scope.table)] : S \in SUBSET scope.keys}}

-----------------------------------------------------------------------------
(* Allocation of the arrays of a decoded cert_verify section *)

IsArray(v) == v.t = "array"

\* the keys of mp in one fixed order
RECURSIVE SeqOfSet(_)
SeqOfSet(S) ==
    IF S = {} THEN <<>>
    ELSE LET k == CHOOSE x \in S : TRUE IN <<k>> \o SeqOfSet(S \ {k})

ArrayKeys(mp) == SeqOfSet({k \in Keys(mp) : IsArray(mp.m[k])})

\* the heap after the arrays of mp are allocated, in the order of ArrayKeys
RECURSIVE AllocAll(_, _, _, _)
AllocAll(mp, ks, i, h) ==
    IF i > Len(ks) THEN h
    ELSE AllocAll(mp, ks, i + 1, Append(h, mp.m[ks[i]].elems))

\* mp with every array replaced by the reference it was allocated at
Allocated(mp, h) ==
    LET ks == ArrayKeys(mp)
        at(k) == CHOOSE i \in 1..Len(ks) : ks[i] = k
    IN  [nil |-> mp.nil,
         m   |-> [k \in Keys(mp) |-> IF IsArray(mp.m[k]) THEN SliceV(Len(h) + at(k))
                                     ELSE mp.m[k]]]

HeapAfter(mp, h) == AllocAll(mp, ArrayKeys(mp), 1, h)

HasRoom(mp) == Len(heap) + Len(ArrayKeys(mp)) <= MaxSlices

-----------------------------------------------------------------------------
(* Documents *)

\* what toml.Unmarshal leaves in the local TOMLRules: a section that the text
\* does not have stays a nil map; with err the decoder stopped part-way
TOMLDocs ==
    {[err |-> e, tab |-> [x \in Tables |-> IF x = scope.table THEN sec ELSE NilMap]] :
        e \in BOOLEAN, sec \in Sections \cup {NilMap}}

\* what json.Unmarshal leaves in the local JSONRules
Null == [null |-> TRUE, s |-> ""]
Ptr(s) == [null |-> FALSE, s |-> s]

JSONRuleSets ==
    IF scope.table = "AlterHostname"
    THEN {<<>>} \cup {<<[Patterns |-> <<k>>, TargetSNI |-> sni]>> :
                        k \in scope.keys,
                        sni \in {Ptr(v) : v \in ValuesOf("AlterHostname")} \cup {Null}}
    ELSE {<<>>}

JSONCertVerifySets ==
    IF scope.table = "CertVerify"
    THEN {<<>>} \cup {<<[Patterns |-> <<k>>, Verify |-> v]>> :
                        k \in scope.keys, v \in ValuesOf("CertVerify")}
    ELSE {<<>>}

JSONDocs ==
    {[err |-> e, Rules |-> rs, CertVerify |-> cv] :
        e \in BOOLEAN, rs \in JSONRuleSets, cv \in JSONCertVerifySets}

\* the argument of Merge: the maps of a Rules that NewRules, FromTOML or
\* FromJSON produced
Others ==
    {[x \in Tables |-> IF x = scope.table THEN sec ELSE MakeMap] :
        sec \in UNION {{normalizeMap(w, o) : o \in Orders(Keys(w))} : w \in Sections}}

-----------------------------------------------------------------------------
(* The handlers, as the set of Rules values each can leave in the receiver *)

\* for k, v := range src { dst[k] = v }
mergeInto(dst, src) ==
    [nil |-> FALSE,
     m   |-> [k \in Keys(dst) \cup Keys(src) |-> IF k \in Keys(src) THEN src.m[k]
                                                 ELSE dst.m[k]]]

\* the three range loops of Merge; an assignment into a nil map panics
MergeLoops(r, other) ==
    LET oA == other["AlterHostname"]
        oC == other["CertVerify"]
        oH == other["Hosts"]
        p1 == r.AlterHostname.nil /\ Keys(oA) # {}
        r1 == IF p1 \/ Keys(oA) = {} THEN r
              ELSE [r EXCEPT !.AlterHostname = mergeInto(@, oA)]
        p2 == ~p1 /\ r1.CertVerify.nil /\ Keys(oC) # {}
        r2 == IF p1 \/ p2 \/ Keys(oC) = {} THEN r1
              ELSE [r1 EXCEPT !.CertVerify = mergeInto(@, oC)]
        p3 == ~p1 /\ ~p2 /\ r2.Hosts.nil /\ Keys(oH) # {}
        r3 == IF p1 \/ p2 \/ p3 \/ Keys(oH) = {} THEN r2
              ELSE [r2 EXCEPT !.Hosts = mergeInto(@, oH)]
    IN  [r |-> r3, panic |-> p1 \/ p2 \/ p3]

\* Merge without the inline Init logic after its loops
MergeWithoutReindex(r, other) ==
    LET res == MergeLoops(r, other)
    IN  {<<res.r, res.panic>>}

\* <<receiver, panicked>> after r.Merge(other)
MergeOutcomes(r, other) ==
    LET res == MergeLoops(r, other)
    IN  IF res.panic THEN {<<res.r, TRUE>>}
        ELSE {<<r2, FALSE>> : r2 \in InitLogic(res.r)}

\* FromTOML that stores what was decoded without looking at the error
FromTOMLIgnoringError(r, doc) ==
    InitLogic([r EXCEPT !.AlterHostname = doc.tab["AlterHostname"],
                        !.CertVerify    = doc.tab["CertVerify"],
                        !.Hosts         = doc.tab["Hosts"]])

\* the receiver after r.FromTOML(data), doc being what the decoder made of data
FromTOMLOutcomes(r, doc) ==
    IF doc.err THEN {r}
    ELSE InitLogic([r EXCEPT !.AlterHostname = doc.tab["AlterHostname"],
                             !.CertVerify    = doc.tab["CertVerify"],
                             !.Hosts         = doc.tab["Hosts"]])

RECURSIVE setPatterns(_, _, _, _)
setPatterns(mp, pats, i, v) ==
    IF i > Len(pats) THEN mp
    ELSE setPatterns(MapSet(mp, pats[i], v), pats, i + 1, v)

RECURSIVE rulesLoop(_, _, _)
rulesLoop(rs, i, mp) ==
    IF i > Len(rs) THEN mp
    ELSE rulesLoop(rs, i + 1,
                   IF rs[i].TargetSNI.null THEN mp
                   ELSE setPatterns(mp, rs[i].Patterns, 1, rs[i].TargetSNI.s))

RECURSIVE certVerifyLoop(_, _, _)
certVerifyLoop(cv, i, mp) ==
    IF i > Len(cv) THEN mp
    ELSE certVerifyLoop(cv, i + 1, setPatterns(mp, cv[i].Patterns, 1, cv[i].Verify))

FromJSONRules(r, jsonRules) ==
    InitLogic([r EXCEPT !.AlterHostname = rulesLoop(jsonRules.Rules, 1, MakeMap),
                        !.CertVerify    = certVerifyLoop(jsonRules.CertVerify, 1, MakeMap)])

\* the receiver after r.FromJSON(data), doc being what the decoder made of data
FromJSONOutcomes(r, doc) ==
    IF doc.err THEN {r}
    ELSE FromJSONRules(r, doc)

\* the arrays of the verify values of a decoded JSON document, allocated on h
JSONArrayRules(cv) == {i \in 1..Len(cv) : IsArray(cv[i].Verify)}

JSONAllocated(cv, h) ==
    [i \in 1..Len(cv) |->
        IF IsArray(cv[i].Verify)
        THEN [cv[i] EXCEPT !.Verify =
                 SliceV(Len(h) + Cardinality({j \in JSONArrayRules(cv) : j <= i}))]
        ELSE cv[i]]

RECURSIVE JSONHeapAfter(_, _, _)
JSONHeapAfter(cv, i, h) ==
    IF i > Len(cv) THEN h
    ELSE JSONHeapAfter(cv, i + 1,
                       IF IsArray(cv[i].Verify) THEN Append(h, cv[i].Verify.elems) ELSE h)

\* ToJSONRules: one rule per entry, in the order range visits the maps.  Every
\* TargetSNI is &target, the address of the loop variable: with one variable
\* per iteration (Go 1.22 and later) each pointer keeps its own entry's value,
\* with one variable for the whole loop (earlier Go) all of them point at the
\* value of the entry visited last
ToJSONRules(r, ordA, ordC, perIteration) ==
    [Rules      |-> [i \in 1..Len(ordA) |->
                        [Patterns  |-> <<ordA[i]>>,
                         TargetSNI |-> Ptr(r.AlterHostname.m[IF perIteration THEN ordA[i]
                                                             ELSE ordA[Len(ordA)]])]],
     CertVerify |-> [i \in 1..Len(ordC) |->
                        [Patterns |-> <<ordC[i]>>, Verify |-> r.CertVerify.m[ordC[i]]]]]

\* an interface{} value as json.Marshal writes it: a []interface{} becomes an
\* array of its elements, which the decoder allocates anew
EncodeValue(v, h) == IF v.t = "slice" THEN ArrayLit(h[v.ref]) ELSE v

\* what json.Unmarshal makes of the bytes of r.ToJSON()
ToJSON(r, ordA, ordC, perIteration, h) ==
    LET jsonRules == ToJSONRules(r, ordA, ordC, perIteration)
    IN  [err        |-> FALSE,
         Rules      |-> jsonRules.Rules,
         CertVerify |-> [i \in 1..Len(jsonRules.CertVerify) |->
                            [jsonRules.CertVerify[i] EXCEPT !.Verify = EncodeValue(@, h)]]]

\* every answer r gives, one row per hostname
AllLookups(r, h) ==
    [host \in Hostnames |->
        [alter |-> GetAlterHostname(r, host),
         ip    |-> GetHost(r, host),
         cert  |-> GetCertVerify(r, host, h)]]

-----------------------------------------------------------------------------
(* State machine: a is the Rules the operations are called on, c is the      *)
(* result of the latest a.DeepCopy()                                          *)

\* the goroutines that call Merge concurrently
Goroutines == {"g1", "g2"}

\* a sync.RWMutex: w is the goroutine that has entered Lock (it holds the
\* write lock once held is TRUE, and keeps new readers out from the moment it
\* entered), readers are the goroutines inside RLock .. RUnlock
Unlocked == [w |-> "none", held |-> FALSE, readers |-> {}]

Did(op, err, arg) == [op |-> op, err |-> err, arg |-> arg, n |-> last.n + 1]

Running == ~aborted /\ last.n < MaxOps

\* the receiver as a caller constructs it: var a Rules, or NewRules(), the
\* entries written into the exported map, then Init()
Init ==
    /\ scope \in Scopes
    /\ \E sec \in Sections :
          LET written == [x \in Tables |-> IF x = scope.table THEN sec ELSE MakeMap]
              cert    == written["CertVerify"]
          IN  /\ Len(ArrayKeys(cert)) <= MaxSlices
              /\ heap = HeapAfter(cert, <<>>)
              /\ \E r0 \in {ZeroRules} \cup
                           InitLogic([NewRules EXCEPT
                                        !.AlterHostname = written["AlterHostname"],
                                        !.CertVerify    = Allocated(cert, <<>>),
                                        !.Hosts         = written["Hosts"]]) :
                    rules = [o \in {"a", "c"} |-> IF o = "a" THEN r0 ELSE ZeroRules]
    /\ aborted = FALSE
    /\ last = [op |-> "none", err |-> FALSE, arg |-> <<>>, n |-> 0]
    /\ copied = [is |-> FALSE, snap |-> <<>>]
    /\ dirty = [o \in {"a", "c"} |-> FALSE]
    /\ built = (rules["a"] # ZeroRules)
    /\ mu = [o \in {"a", "c"} |-> Unlocked]
    /\ pc = [g \in Goroutines |-> "idle"]
    /\ call = [g \in Goroutines |-> [r |-> "a", other |-> "c"]]

\* a = NewRules()
NewRulesOp ==
    /\ Running
    /\ UNCHANGED locks
    /\ rules' = [rules EXCEPT !["a"] = NewRules]
    /\ last' = Did("NewRules", FALSE, <<>>)
    /\ UNCHANGED <<heap, aborted, copied, scope>>
    /\ dirty' = [dirty EXCEPT !["a"] = FALSE]
    /\ built' = TRUE

\* a.Init()
InitOp ==
    /\ Running
    /\ UNCHANGED locks
    /\ \E r2 \in InitLogic(rules["a"]) : rules' = [rules EXCEPT !["a"] = r2]
    /\ last' = Did("Init", FALSE, <<>>)
    /\ UNCHANGED <<heap, aborted, copied, scope, built>>
    /\ dirty' = [dirty EXCEPT !["a"] = FALSE]

\* a.<table>[k] = v, written by the caller into the exported map
SetEntry ==
    /\ Running
    /\ UNCHANGED locks
    /\ ~rules["a"][scope.table].nil
    /\ \E k \in scope.keys, v \in ValuesOf(scope.table) :
          IF scope.table = "CertVerify" /\ IsArray(v)
          THEN /\ Len(heap) < MaxSlices
               /\ rules' = [rules EXCEPT !["a"][scope.table] =
                                            MapSet(@, k, SliceV(Len(heap) + 1))]
               /\ heap' = Append(heap, v.elems)
          ELSE /\ rules' = [rules EXCEPT !["a"][scope.table] = MapSet(@, k, v)]
               /\ heap' = heap
    /\ last' = Did("SetEntry", FALSE, <<>>)
    /\ UNCHANGED <<aborted, copied, scope, built>>
    /\ dirty' = [dirty EXCEPT !["a"] = TRUE]

\* delete(a.<table>, k), by the caller
DeleteEntry ==
    /\ Running
    /\ UNCHANGED locks
    /\ \E k \in Keys(rules["a"][scope.table]) :
          rules' = [rules EXCEPT !["a"][scope.table] = MapDelete(@, k)]
    /\ last' = Did("DeleteEntry", FALSE, <<>>)
    /\ UNCHANGED <<heap, aborted, copied, scope, built>>
    /\ dirty' = [dirty EXCEPT !["a"] = TRUE]

\* a.CertVerify[k].([]interface{})[i] = e, by the caller
SetElement ==
    /\ Running
    /\ UNCHANGED locks
    /\ \E k \in Keys(rules["a"].CertVerify) :
          LET v == rules["a"].CertVerify.m[k]
          IN  /\ v.t = "slice"
              /\ \E i \in 1..Len(heap[v.ref]), e \in Elements :
                    /\ heap[v.ref][i] # e
                    /\ heap' = [heap EXCEPT ![v.ref][i] = e]
    /\ last' = Did("SetElement", FALSE, <<>>)
    /\ UNCHANGED <<rules, aborted, copied, scope, built>>
    /\ dirty' = dirty

\* c = a.DeepCopy()
DeepCopy ==
    /\ Running
    /\ UNCHANGED locks
    /\ rules' = [rules EXCEPT !["c"] = DeepCopyOf(rules["a"])]
    /\ copied' = [is |-> TRUE, snap |-> AllLookups(rules'["c"], heap)]
    /\ last' = Did("DeepCopy", FALSE, <<>>)
    /\ UNCHANGED <<heap, aborted, scope, built>>
    /\ dirty' = [dirty EXCEPT !["c"] = dirty["a"]]

\* a.Merge(other)
Merge ==
    /\ Running
    /\ UNCHANGED locks
    /\ \E o \in Others :
          /\ HasRoom(o["CertVerify"])
          /\ LET other == [o EXCEPT !["CertVerify"] = Allocated(@, heap)]
             IN  /\ \E res \in MergeOutcomes(rules["a"], other) :
                       /\ rules' = [rules EXCEPT !["a"] = res[1]]
                       /\ aborted' = res[2]
                 /\ last' = Did("Merge", FALSE, other)
          /\ heap' = HeapAfter(o["CertVerify"], heap)
    /\ UNCHANGED <<copied, scope, built>>
    /\ dirty' = [dirty EXCEPT !["a"] = @ /\ aborted']

\* a.FromTOML(data)
FromTOML ==
    /\ Running
    /\ UNCHANGED locks
    /\ \E d \in TOMLDocs :
          /\ HasRoom(d.tab["CertVerify"])
          /\ LET doc == [d EXCEPT !.tab["CertVerify"] = Allocated(@, heap)]
             IN  \E r2 \in FromTOMLOutcomes(rules["a"], doc) :
                    rules' = [rules EXCEPT !["a"] = r2]
          /\ heap' = HeapAfter(d.tab["CertVerify"], heap)
          /\ last' = Did("FromTOML", d.err, <<>>)
    /\ UNCHANGED <<aborted, copied, scope>>
    /\ dirty' = [dirty EXCEPT !["a"] = @ /\ last'.err]
    /\ built' = (built \/ ~last'.err)

\* a.FromJSON(data)
FromJSON ==
    /\ Running
    /\ UNCHANGED locks
    /\ \E d \in JSONDocs :
          /\ Len(heap) + Cardinality(JSONArrayRules(d.CertVerify)) <= MaxSlices
          /\ LET doc == [d EXCEPT !.CertVerify = JSONAllocated(@, heap)]
             IN  \E r2 \in FromJSONOutcomes(rules["a"], doc) :
                    rules' = [rules EXCEPT !["a"] = r2]
          /\ heap' = JSONHeapAfter(d.CertVerify, 1, heap)
          /\ last' = Did("FromJSON", d.err, <<>>)
    /\ UNCHANGED <<aborted, copied, scope>>
    /\ dirty' = [dirty EXCEPT !["a"] = @ /\ last'.err]
    /\ built' = (built \/ ~last'.err)

\* var c Rules; c.FromJSON(a.ToJSON())
RoundTrip ==
    /\ Running
    /\ UNCHANGED locks
    /\ \E ordA \in Orders(Keys(rules["a"].AlterHostname)),
          ordC \in Orders(Keys(rules["a"].CertVerify)),
          perIteration \in BOOLEAN :
          LET d == ToJSON(rules["a"], ordA, ordC, perIteration, heap)
          IN  /\ Len(heap) + Cardinality(JSONArrayRules(d.CertVerify)) <= MaxSlices
              /\ LET doc == [d EXCEPT !.CertVerify = JSONAllocated(@, heap)]
                 IN  \E r2 \in FromJSONOutcomes(ZeroRules, doc) :
                        rules' = [rules EXCEPT !["c"] = r2]
              /\ heap' = JSONHeapAfter(d.CertVerify, 1, heap)
    /\ last' = Did("RoundTrip", FALSE, <<>>)
    /\ copied' = [is |-> FALSE, snap |-> <<>>]
    /\ dirty' = [dirty EXCEPT !["c"] = FALSE]
    /\ UNCHANGED <<aborted, scope, built>>

Next ==
    \/ NewRulesOp
    \/ InitOp
    \/ SetEntry
    \/ DeleteEntry
    \/ SetElement
    \/ DeepCopy
    \/ Merge
    \/ FromTOML
    \/ FromJSON
    \/ RoundTrip

Spec == Init /\ [][Next]_vars

-----------------------------------------------------------------------------
(* Merge called from several goroutines, one step per lock operation *)

\* the objects as NewRules, entries and Init leave them; every goroutine has
\* called Merge on some receiver with some argument, the receiver included
ConcurrentInit ==
    /\ scope \in {s \in Scopes : s.table = "Hosts"}
    /\ \E sa \in Sections, sc \in Sections :
          \E ra \in InitLogic([NewRules EXCEPT !.Hosts = sa]),
             rc \in InitLogic([NewRules EXCEPT !.Hosts = sc]) :
                rules = [o \in {"a", "c"} |-> IF o = "a" THEN ra ELSE rc]
    /\ heap = <<>>
    /\ aborted = FALSE
    /\ last = [op |-> "none", err |-> FALSE, arg |-> <<>>, n |-> 0]
    /\ copied = [is |-> FALSE, snap |-> <<>>]
    /\ dirty = [o \in {"a", "c"} |-> FALSE]
    /\ built = TRUE
    /\ mu = [o \in {"a", "c"} |-> Unlocked]
    /\ pc = [g \in Goroutines |-> "Lock"]
    /\ call \in [Goroutines -> [r : {"a", "c"}, other : {"a", "c"}]]

\* r.mu.Lock(), entered: the goroutine has the writers' mutex; from now on
\* RLock of other goroutines waits
MergeLock(g) ==
    /\ ~aborted
    /\ pc[g] = "Lock"
    /\ mu[call[g].r].w = "none"
    /\ mu' = [mu EXCEPT ![call[g].r].w = g]
    /\ pc' = [pc EXCEPT ![g] = "LockWait"]
    /\ UNCHANGED <<rules, heap, aborted, last, copied, dirty, built, scope, call>>

\* r.mu.Lock() returns once the readers have left
MergeLockAcquire(g) ==
    /\ ~aborted
    /\ pc[g] = "LockWait"
    /\ mu[call[g].r].readers = {}
    /\ mu' = [mu EXCEPT ![call[g].r].held = TRUE]
    /\ pc' = [pc EXCEPT ![g] = "RLock"]
    /\ UNCHANGED <<rules, heap, aborted, last, copied, dirty, built, scope, call>>

\* other.mu.RLock(): waits while a goroutine is inside Lock .. Unlock of other.mu
MergeRLock(g) ==
    /\ ~aborted
    /\ pc[g] = "RLock"
    /\ mu[call[g].other].w = "none"
    /\ mu' = [mu EXCEPT ![call[g].other].readers = @ \cup {g}]
    /\ pc' = [pc EXCEPT ![g] = "body"]
    /\ UNCHANGED <<rules, heap, aborted, last, copied, dirty, built, scope, call>>

\* the three loops and the inline Init logic, under both locks
MergeBody(g) ==
    /\ ~aborted
    /\ pc[g] = "body"
    /\ LET other == [t \in Tables |-> rules[call[g].other][t]]
       IN  /\ \E res \in MergeOutcomes(rules[call[g].r], other) :
                 /\ rules' = [rules EXCEPT ![call[g].r] = res[1]]
                 /\ aborted' = res[2]
           /\ last' = Did("Merge", FALSE, other)
    /\ dirty' = [dirty EXCEPT ![call[g].r] = @ /\ aborted']
    /\ pc' = [pc EXCEPT ![g] = "RUnlock"]
    /\ UNCHANGED <<heap, copied, built, scope, mu, call>>

\* deferred other.mu.RUnlock()
MergeRUnlock(g) ==
    /\ ~aborted
    /\ pc[g] = "RUnlock"
    /\ mu' = [mu EXCEPT ![call[g].other].readers = @ \ {g}]
    /\ pc' = [pc EXCEPT ![g] = "Unlock"]
    /\ UNCHANGED <<rules, heap, aborted, last, copied, dirty, built, scope, call>>

\* deferred r.mu.Unlock(); Merge returns
MergeUnlock(g) ==
    /\ ~aborted
    /\ pc[g] = "Unlock"
    /\ mu' = [mu EXCEPT ![call[g].r].w = "none", ![call[g].r].held = FALSE]
    /\ pc' = [pc EXCEPT ![g] = "done"]
    /\ UNCHANGED <<rules, heap, aborted, last, copied, dirty, built, scope, call>>

\* one step of goroutine g
MergeStep(g) ==
    \/ MergeLock(g)
    \/ MergeLockAcquire(g)
    \/ MergeRLock(g)
    \/ MergeBody(g)
    \/ MergeRUnlock(g)
    \/ MergeUnlock(g)

ConcurrentNext ==
    \/ \E g \in Goroutines : MergeLock(g)
    \/ \E g \in Goroutines : MergeLockAcquire(g)
    \/ \E g \in Goroutines : MergeRLock(g)
    \/ \E g \in Goroutines : MergeBody(g)
    \/ \E g \in Goroutines : MergeRUnlock(g)
    \/ \E g \in Goroutines : MergeUnlock(g)

\* the Go scheduler runs every goroutine that is not waiting for a lock
ConcurrentSpec ==
    /\ ConcurrentInit
    /\ [][ConcurrentNext]_vars
    /\ \A g \in Goroutines : WF_vars(MergeStep(g))

-----------------------------------------------------------------------------
(* Properties *)

Objects == {"a", "c"}

Initialized(o) == ~dirty[o] /\ ~aborted

Normal(k) == TrimPrefix(k, <<"$">>)

\* the lookup of table t on r, and the value it returns for a stored value v
LookupIn(t, r, host, h) ==
    CASE t = "AlterHostname" -> GetAlterHostname(r, host)
      [] t = "Hosts"         -> GetHost(r, host)
      [] t = "CertVerify"    -> GetCertVerify(r, host, h)

ReturnedIn(t, v, h) == IF t = "CertVerify" THEN ParseCertPolicy(v, h).policy ELSE v

Lookup(t, r, host) == LookupIn(t, r, host, heap)

Returned(t, v) == ReturnedIn(t, v, heap)

NotFound(t) == [val |-> IF t = "CertVerify" THEN ZeroPolicy ELSE "", ok |-> FALSE]

Matching(mp, host) == {k \in Keys(mp) : MatchPattern(k, host)}

Longest(S) == {k \in S : \A k2 \in S : Len(k2) <= Len(k)}

\* C1: in an initialized RuleSet, a host that is a literal key of a table
\* resolves, found, to that key's value, whatever patterns also match it.
C1_ExactMatchWins ==
    \A o \in Objects : Initialized(o) =>
        \A t \in Tables : \A host \in Keys(rules[o][t]) :
            Lookup(t, rules[o], host) = [val |-> Returned(t, rules[o][t].m[host]), ok |-> TRUE]

\* an exact key, with a strictly longer pattern of another value that matches it too
C1_Witness ==
    /\ last.op \in {"Init", "Merge", "FromTOML"}
    /\ Initialized("a")
    /\ \E t \in Tables : \E host \in Keys(rules["a"][t]) :
          \E k \in Matching(rules["a"][t], host) :
              /\ Len(k) > Len(host)
              /\ rules["a"][t].m[k] # rules["a"][t].m[host]

\* C2: in an initialized RuleSet, a host that is no literal key resolves to the
\* value of a matching key that no matching key is longer than; when no key
\* matches, the lookup returns the zero value and found = false.
C2_LongestPatternWins ==
    \A o \in Objects : Initialized(o) =>
        \A t \in Tables : \A host \in Hostnames \ Keys(rules[o][t]) :
            LET M == Matching(rules[o][t], host)
            IN  IF M = {} THEN Lookup(t, rules[o], host) = NotFound(t)
                ELSE \E k \in Longest(M) :
                        Lookup(t, rules[o], host) =
                            [val |-> Returned(t, rules[o][t].m[k]), ok |-> TRUE]

\* two patterns of different length and value match a host that is no key
C2_Witness ==
    /\ last.op \in {"Init", "Merge", "FromTOML"}
    /\ Initialized("a")
    /\ \E t \in Tables : \E host \in Hostnames \ Keys(rules["a"][t]) :
          \E k1, k2 \in Matching(rules["a"][t], host) :
              /\ Len(k1) > Len(k2)
              /\ rules["a"][t].m[k1] # rules["a"][t].m[k2]

\* the patterns that a and b define before the merge, in normal form
Defined(a0, b, t) == {Normal(k) : k \in Keys(a0[t]) \cup Keys(b[t])}

\* a1 is a0 merged with b in table t, b winning every pattern both define
MergedInto(a0, b, a1, t, h) ==
    /\ Keys(a1[t]) = Defined(a0, b, t)
    /\ \A p \in Defined(a0, b, t) :
          IF \E k \in Keys(b[t]) : Normal(k) = p
          THEN \E k \in Keys(b[t]) :
                  /\ Normal(k) = p
                  /\ LookupIn(t, a1, p, h) = [val |-> ReturnedIn(t, b[t].m[k], h), ok |-> TRUE]
          ELSE \E k \in Keys(a0[t]) :
                  /\ Normal(k) = p
                  /\ a1[t].m[p] = a0[t].m[k]

\* C3: after a.Merge(b) each mapping of a is the union of both, a pattern that
\* both define (in plain or legacy `$` form) resolves to b's value, and a
\* pattern that only a defines keeps a's value.
C3_MergeOtherWins ==
    [][(last'.op = "Merge" /\ ~aborted') =>
          \A t \in Tables : MergedInto(rules["a"], last'.arg, rules'["a"], t, heap')]_vars

Marker == "__AUTO__"

IsMarker(t, v) == IF t = "CertVerify" THEN v = StrV(Marker) ELSE v = Marker

\* C4: applying an override removes from the base every key whose override
\* value is the marker, so that a host which matched only that key is not
\* found afterwards; every other override key sets the base value.
C4_MarkerDeletes ==
    [][(last'.op = "Merge" /\ ~aborted') =>
          \A t \in Tables : \A k \in Keys(last'.arg[t]) :
              IF IsMarker(t, last'.arg[t].m[k])
              THEN /\ k \notin Keys(rules'["a"][t])
                   /\ \A host \in Hostnames :
                         (Matching(rules["a"][t], host) \cup Matching(last'.arg[t], host)) = {k}
                            => LookupIn(t, rules'["a"], host, heap') = NotFound(t)
              ELSE /\ MapHas(rules'["a"][t], Normal(k))
                   /\ rules'["a"][t].m[Normal(k)] = last'.arg[t].m[k]]_vars

\* C5: whatever is done to a after c = a.DeepCopy(), every lookup on c
\* answers what it answered right after the copy.
C5_CopyIndependent ==
    copied.is => AllLookups(rules["c"], heap) = copied.snap

KeyList(t, r) ==
    CASE t = "AlterHostname" -> r.alterHostnameKeys
      [] t = "CertVerify"    -> r.certVerifyKeys
      [] t = "Hosts"         -> r.hostsKeys

\* C6: once NewRules, Init, Merge, FromTOML or FromJSON has returned, each
\* cached key list holds exactly the keys of its mapping, each once, longest
\* first.
C6_IndexFresh ==
    \A o \in Objects : Initialized(o) =>
        \A t \in Tables :
            LET ks == KeyList(t, rules[o])
            IN  /\ {ks[i] : i \in 1..Len(ks)} = Keys(rules[o][t])
                /\ Len(ks) = Cardinality(Keys(rules[o][t]))
                /\ \A i, j \in 1..Len(ks) : i < j => Len(ks[i]) >= Len(ks[j])

\* a call rebuilt the index of a table that holds keys of different lengths
C6_Witness ==
    /\ last.op \in {"Merge", "FromTOML", "FromJSON", "Init"}
    /\ Initialized("a")
    /\ \E t \in Tables : \E k1, k2 \in Keys(rules["a"][t]) : Len(k1) < Len(k2)

\* C7: a FromTOML or FromJSON that returns an error leaves the receiver as it
\* was: the three mappings, the three key lists and every lookup.
C7_FailedLoadKeepsReceiver ==
    [][(last'.op \in {"FromTOML", "FromJSON"} /\ last'.err) =>
          /\ rules' = rules
          /\ AllLookups(rules'["a"], heap') = AllLookups(rules["a"], heap)]_vars

\* a load failed on a receiver that holds entries
C7_Witness ==
    /\ last.op \in {"FromTOML", "FromJSON"}
    /\ last.err
    /\ Keys(rules["a"][scope.table]) # {}

\* C8: Merge returns normally, whatever NewRules, FromTOML or FromJSON made
\* of the receiver.
C8_MergeNeverAborts ==
    (last.op = "Merge" /\ built) => ~aborted

Unparsable(v) == v.t \notin {"bool", "string", "slice"} \/ (v.t = "string" /\ v.s = "")

\* the keys GetCertVerify answers host from: host itself when it is a key,
\* the longest matching keys otherwise
Selected(mp, host) == IF MapHas(mp, host) THEN {host} ELSE Longest(Matching(mp, host))

\* C9: when a key of the cert_verify table is found for the host, GetCertVerify
\* returns found = true, with the zero policy when the stored value is
\* unparsable.
C9_FoundAlwaysYieldsPolicy ==
    \A o \in Objects : Initialized(o) =>
        \A host \in Hostnames :
            LET sel == Selected(rules[o].CertVerify, host)
                got == GetCertVerify(rules[o], host, heap)
            IN  sel # {} =>
                   /\ got.ok
                   /\ \E k \in sel :
                         IF Unparsable(rules[o].CertVerify.m[k])
                         THEN got.val = ZeroPolicy
                         ELSE got.val = ParseCertPolicy(rules[o].CertVerify.m[k], heap).policy

\* the only key found for a host holds an unparsable value
C9_Witness ==
    /\ last.op \in {"Init", "Merge", "FromTOML", "FromJSON"}
    /\ Initialized("a")
    /\ \E host \in Hostnames :
          LET sel == Selected(rules["a"].CertVerify, host)
          IN  /\ sel # {}
              /\ \A k \in sel : Unparsable(rules["a"].CertVerify.m[k])
              /\ GetCertVerify(rules["a"], host, heap) = [val |-> ZeroPolicy, ok |-> TRUE]

\* C10: two RuleSets built from the same contents answer every lookup alike,
\* also when patterns of equal length match the host.
C10_TiesDeterministic ==
    (/\ copied.is
     /\ Initialized("a")
     /\ Initialized("c")
     /\ \A t \in Tables : rules["a"][t] = rules["c"][t])
        => AllLookups(rules["a"], heap) = AllLookups(rules["c"], heap)

\* C11: for a RuleSet a with no static-host entries, the Rules that a fresh
\* value becomes under FromJSON(a.ToJSON()) answers GetAlterHostname and
\* GetCertVerify, for every hostname, as a does.
C11_JSONRoundTrip ==
    [][(last'.op = "RoundTrip" /\ Initialized("a") /\ Keys(rules["a"].Hosts) = {}) =>
          \A host \in Hostnames :
              /\ GetAlterHostname(rules'["c"], host) = GetAlterHostname(rules["a"], host)
              /\ GetCertVerify(rules'["c"], host, heap') =
                    GetCertVerify(rules["a"], host, heap)]_vars

\* goroutine g waits for a lock that it cannot get in this state
Blocked(g) ==
    \/ pc[g] = "Lock"     /\ mu[call[g].r].w # "none"
    \/ pc[g] = "LockWait" /\ mu[call[g].r].readers # {}
    \/ pc[g] = "RLock"    /\ mu[call[g].other].w # "none"

\* g's call has returned and holds neither lock
Released(g) ==
    /\ pc[g] = "done"
    /\ mu[call[g].r].w # g
    /\ g \notin mu[call[g].other].readers

InMerge == {g \in Goroutines : pc[g] \notin {"idle", "done"}}

\* C12: under fair scheduling every call of Merge returns, both locks
\* released, also r.Merge(r) and a.Merge(b) running beside b.Merge(a); and in
\* no reachable state are all the goroutines inside Merge waiting for a lock.
C12_MergeReturns ==
    /\ \A g \in Goroutines : (pc[g] = "Lock") ~> Released(g)
    /\ [](InMerge # {} => \E g \in InMerge : ~Blocked(g))

====
